---- MODULE Spec2Model ----
(***************************************************************************)
(* A model of the batch conversion pipeline of fpk2csv.py: the date-token  *)
(* parser, the folder scanner, the per-sheet conversion with its           *)
(* existence check, and the run loop that aggregates the outcome records.  *)
(* Further specifications exercise single units: the sheet-name sanitizer, *)
(* one process_excel_file call on a one-sheet workbook, two such calls     *)
(* running concurrently against one output root, and runs over roots that  *)
(* hold entries other than date folders.                                   *)
(*                                                                         *)
(* Strings that the code inspects character by character (folder names,    *)
(* sheet names) are sequences of one-character strings.                    *)
(***************************************************************************)
EXTENDS Integers, Sequences, FiniteSets, TLC

VARIABLES
    folder_name,    \* argument of validate_date_folder_name (date specification)
    Date,           \* its return value, or Unset before the call
    posix,          \* the platform: TRUE for POSIX (glibc), FALSE for Windows
    rootKind,       \* what input_folder is on disk: "absent", "dir" or "file"
    listing,        \* os.listdir(input_folder): the entries of the root, in order
    scan_results,   \* return value of scan_fpk_structure, or Unset
    pc,             \* position of the run
    run,            \* number of the current run over the same tree (1-based)
    i,              \* index of the file being processed (main's loop variable)
    j,              \* index of the sheet being processed
    df,             \* the table being written while pc = "writing"
    processed_files,\* process_excel_file's local result list
    all_results,    \* main's report of the current run
    created_folders,\* main's set of created folders
    prev_results,   \* the reports of the completed earlier runs
    dirs,           \* sheet subfolders that exist under the output root
    files,          \* output path -> lines the file holds (a function on the existing paths)
    written,        \* output path -> the lines its writer was asked to write
    root0,          \* the subfolders and files at the start of the first run
    dirs0,          \* the subfolders at the start of the current run
    files0,         \* the files at the start of the current process_excel_file call
    raised,         \* sheet indices of the current call whose processing raised
    interrupted,    \* number of runs that were stopped before their end
    raw_name,       \* argument of sanitize_sheet_name (sanitizer specification)
    sanitized,      \* its return value as [token |-> ...], or Unset before the call
    call,           \* arguments of one process_excel_file call (call specification)
    outcome,        \* its records and the files it leaves, or Unset before the call
    workers         \* the concurrent calls: position, sheet and record of each

dateVars == <<folder_name, Date>>
scanVars == <<posix, rootKind, listing, scan_results>>
runVars  == <<pc, run, i, j, df, processed_files, all_results, created_folders,
              prev_results, dirs, files, written, root0, dirs0, files0, raised,
              interrupted>>
unitVars == <<raw_name, sanitized, call, outcome, workers>>
vars     == <<dateVars, scanVars, runVars, unitVars>>

\* values that stand for "no result"; records, as the results they replace are
None == [tag |-> "None"]
Unset == [tag |-> "unset"]
ValueError == [tag |-> "ValueError"]
NotADirectoryError == [tag |-> "NotADirectoryError"]

----------------------------------------------------------------------------
(* Characters and small helpers                                            *)

AsciiDigit == <<"0", "1", "2", "3", "4", "5", "6", "7", "8", "9">>
\* decimal digits outside ASCII (e.g. ARABIC-INDIC DIGIT ZERO..NINE), which
\* Python's \d matches in a str pattern
UnicodeDigit == <<"u0", "u1", "u2", "u3", "u4", "u5", "u6", "u7", "u8", "u9">>

Range(s) == {s[k] : k \in DOMAIN s}

IsAscii19(c) == \E n \in 1..9 : c = AsciiDigit[n + 1]

\* regex \d
IsDigit(c) == c \in Range(AsciiDigit) \cup Range(UnicodeDigit)

\* int() of one decimal digit
DigitVal(c) == CHOOSE n \in 0..9 : c = AsciiDigit[n + 1] \/ c = UnicodeDigit[n + 1]

\* int() of the digits s[p..p+len-1]
RECURSIVE IntOf(_, _, _)
IntOf(s, p, len) ==
    IF len = 0 THEN 0
    ELSE 10 * IntOf(s, p, len - 1) + DigitVal(s[p + len - 1])

TwoDigits(n) == <<AsciiDigit[(n \div 10) + 1], AsciiDigit[(n % 10) + 1]>>

FourDigits(n) ==
    <<AsciiDigit[(n \div 1000) + 1], AsciiDigit[((n \div 100) % 10) + 1],
      AsciiDigit[((n \div 10) % 10) + 1], AsciiDigit[(n % 10) + 1]>>

\* str(n) for 1 <= n <= 9999, without padding
Decimal(n) ==
    IF n >= 1000 THEN FourDigits(n)
    ELSE IF n >= 100 THEN SubSeq(FourDigits(n), 2, 4)
    ELSE IF n >= 10 THEN SubSeq(FourDigits(n), 3, 4)
    ELSE SubSeq(FourDigits(n), 4, 4)

----------------------------------------------------------------------------
(* validate_date_folder_name                                               *)

\* the separator of each entry of date_patterns, in list order
date_patterns == << <<"-">>, <<".">>, <<"_">>, <<>> >>

\* re.match(pattern, folder_name); "$" also matches before one trailing newline
ReMatch(sep, s) ==
    LET body == IF Len(s) > 0 /\ s[Len(s)] = "\n" THEN SubSeq(s, 1, Len(s) - 1) ELSE s
    IN  IF sep = <<>>
        THEN Len(body) = 8 /\ \A k \in 1..8 : IsDigit(body[k])
        ELSE /\ Len(body) = 10
             /\ body[5] = sep[1] /\ body[8] = sep[1]
             /\ \A k \in {1, 2, 3, 4, 6, 7, 9, 10} : IsDigit(body[k])

IsLeap(y) == y % 4 = 0 /\ (y % 100 # 0 \/ y % 400 = 0)

DaysInMonth(y, m) ==
    IF m = 2 THEN (IF IsLeap(y) THEN 29 ELSE 28)
    ELSE IF m \in {4, 6, 9, 11} THEN 30 ELSE 31

\* the alternatives of the %m directive (1[0-2]|0[1-9]|[1-9]) that match at
\* position p, as the number of characters each consumes, in regex order
MonthAlts(s, p) ==
    (IF p + 1 <= Len(s) /\ ( (s[p] = "1" /\ s[p + 1] \in {"0", "1", "2"})
                          \/ (s[p] = "0" /\ IsAscii19(s[p + 1])) )
     THEN <<2>> ELSE <<>>)
    \o (IF p <= Len(s) /\ IsAscii19(s[p]) THEN <<1>> ELSE <<>>)

\* the alternatives of the %d directive (3[0-1]|[1-2]\d|0[1-9]|[1-9]| [1-9])
DayAlts(s, p) ==
    (IF p + 1 <= Len(s) /\ ( (s[p] = "3" /\ s[p + 1] \in {"0", "1"})
                          \/ (s[p] \in {"1", "2"} /\ IsDigit(s[p + 1]))
                          \/ (s[p] = "0" /\ IsAscii19(s[p + 1])) )
     THEN <<2>> ELSE <<>>)
    \o (IF p <= Len(s) /\ IsAscii19(s[p]) THEN <<1>> ELSE <<>>)
    \o (IF p + 1 <= Len(s) /\ s[p] = " " /\ IsAscii19(s[p + 1]) THEN <<2>> ELSE <<>>)

\* does the literal separator of the format stand at position p
SepAt(sep, s, p) == sep = <<>> \/ (p <= Len(s) /\ s[p] = sep[1])

\* the (month length, day length) pair the regex matches when the month takes
\* ml characters from position pm, or <<>> when the rest does not match
DayAfter(s, sep, pm, ml) ==
    IF SepAt(sep, s, pm + ml) /\ Len(DayAlts(s, pm + ml + Len(sep))) > 0
    THEN <<ml, DayAlts(s, pm + ml + Len(sep))[1]>> ELSE <<>>

\* the pairs of the month alternatives, in the order the backtracking
\* matcher tries them
Tries(s, sep, alts) ==
    IF Len(s) >= 4 /\ (\A k \in 1..4 : IsDigit(s[k])) /\ SepAt(sep, s, 5)
    THEN [a \in DOMAIN alts |-> DayAfter(s, sep, 5 + Len(sep), alts[a])]
    ELSE <<>>

\* the first alternative that matches, or <<>>
FirstTry(tries, hits) ==
    IF hits = {} THEN <<>> ELSE tries[CHOOSE x \in hits : \A y \in hits : x <= y]

\* a day number accepted without looking at the month's length
DateOfAnyDay(y, m, d) ==
    IF y < 1 THEN ValueError ELSE [year |-> y, month |-> m, day |-> d]

\* the fields the match found, checked as datetime's constructor checks them
DateOf(y, m, d) ==
    IF y < 1 THEN ValueError                    \* year 0 is out of range
    ELSE IF d < 1 \/ d > DaysInMonth(y, m) THEN ValueError
    ELSE [year |-> y, month |-> m, day |-> d]

\* the date of a match whose month takes ml and whose day takes dl characters,
\* the day starting at pd
Found(s, sep, ml, dl, pd) ==
    IF pd + dl - 1 # Len(s) THEN ValueError     \* unconverted data remains
    ELSE DateOf(IntOf(s, 1, 4), IntOf(s, 5 + Len(sep), ml),
                IF s[pd] = " " THEN DigitVal(s[pd + 1]) ELSE IntOf(s, pd, dl))

Parsed(s, sep, try) ==
    IF try = <<>> THEN ValueError               \* does not match format
    ELSE Found(s, sep, try[1], try[2], 5 + Len(sep) + try[1] + Len(sep))

FirstTryOf(tries) == FirstTry(tries, {a \in DOMAIN tries : tries[a] # <<>>})

\* datetime.strptime(s, '%Y<sep>%m<sep>%d'): the date, or ValueError
Strptime(s, sep) ==
    Parsed(s, sep, FirstTryOf(Tries(s, sep, MonthAlts(s, 5 + Len(sep)))))

\* the least element of a set of pattern indices, 0 when there is none
FirstOf(ok) == IF ok = {} THEN 0 ELSE CHOOSE k \in ok : \A l \in ok : k <= l

\* the index in date_patterns of the first pattern that matches and parses
MatchedPattern(name) ==
    FirstOf({k \in DOMAIN date_patterns :
                ReMatch(date_patterns[k], name)
                /\ Strptime(name, date_patterns[k]) # ValueError})

\* the Date the loop returns at pattern k, None when it falls through
DateAt(name, k) == IF k = 0 THEN None ELSE Strptime(name, date_patterns[k])

validate_date_folder_name(name) == DateAt(name, MatchedPattern(name))

\* Date.strftime('%Y<sep>%m<sep>%d'): %m and %d are zero-padded; %Y is padded
\* to four digits by the Windows C library and not padded by glibc
Strftime(d, sep, padYear) ==
    (IF padYear THEN FourDigits(d.year) ELSE Decimal(d.year))
    \o sep \o TwoDigits(d.month) \o sep \o TwoDigits(d.day)

----------------------------------------------------------------------------
(* Inputs of the date specification                                        *)

YearStrs ==
    { <<"2", "0", "2", "4">>, <<"2", "0", "2", "3">>, <<"1", "9", "0", "0">>,
      <<"2", "0", "0", "0">>, <<"0", "0", "0", "0">>, <<"0", "0", "9", "9">>,
      <<"u2", "0", "2", "4">> }
MonthStrs == {TwoDigits(m) : m \in 0..13} \cup { <<"1", "u0">> }
DayStrs ==
    {TwoDigits(d) : d \in {0, 1, 9, 10, 15, 28, 29, 30, 31, 32}}
    \cup { <<"1", "u5">>, <<"u1", "5">> }
SepStrs == { <<>>, <<"-">>, <<".">>, <<"_">>, <<"/">> }
TailStrs == { <<>>, <<"\n">>, <<"0">> }

FolderNames ==
    { y \o s1 \o m \o s2 \o d \o t :
        y \in YearStrs, s1 \in SepStrs, m \in MonthStrs, s2 \in SepStrs,
        d \in DayStrs, t \in TailStrs }
    \cup { <<"n", "o", "t", "a", "d", "a", "t", "e">>, <<>> }

----------------------------------------------------------------------------
(* scan_fpk_structure                                                      *)

\* str.lower() / os.path.normcase on the letters the extensions use
LowerChar(c) ==
    IF c = "X" THEN "x" ELSE IF c = "L" THEN "l" ELSE IF c = "S" THEN "s" ELSE c

Lower(s) == [k \in DOMAIN s |-> LowerChar(s[k])]

EndsWith(s, suffix) ==
    Len(s) >= Len(suffix)
    /\ SubSeq(s, Len(s) - Len(suffix) + 1, Len(s)) = suffix

XLSX == <<".", "x", "l", "s", "x">>
XLS  == <<".", "x", "l", "s">>

\* fnmatch of a directory entry against "*<ext>": a leading "*" does not
\* match a name that starts with a dot; the comparison is case-sensitive on
\* POSIX and case-insensitive on Windows
GlobMatch(name, ext, isPosix) ==
    /\ Len(name) > 0 /\ name[1] # "."
    /\ IF isPosix THEN EndsWith(name, ext) ELSE EndsWith(Lower(name), ext)

\* the subsequence of s whose elements satisfy Test
RECURSIVE SelectWhere(_, _)
SelectWhere(s, keep) ==
    IF s = <<>> THEN <<>>
    ELSE (IF Head(s) \in keep THEN <<Head(s)>> ELSE <<>>) \o SelectWhere(Tail(s), keep)

\* glob.glob(os.path.join(item_path, "*<ext>")): the immediate children of the
\* folder whose name matches, files and directories alike, in directory order
Glob(entry, ext, isPosix) ==
    SelectWhere(entry.children,
                {c \in Range(entry.children) : GlobMatch(c.name, ext, isPosix)})

\* lines 193-212: the date_folders item and the excel_files items appended
\* for a folder whose name gave the date d and whose globs gave found
Appended(item, d, found) ==
    [folders |-> << [name |-> item.name, path |-> <<item.name>>,
                     date |-> d, file_count |-> Len(found)] >>,
     excel |-> [k \in DOMAIN found |->
                  [path |-> <<item.name, found[k].name>>, date |-> d,
                   folder_name |-> item.name]]]

\* the isdir test left out: every entry whose name is a date is a partition
DateFolderAnyEntry(item, d, found) ==
    IF d # None THEN Appended(item, d, found)
    ELSE [folders |-> <<>>, excel |-> <<>>]

\* lines 189-192: only directories whose name is a date are looked into
DateFolder(item, d, found) ==
    IF item.isDir /\ d # None THEN Appended(item, d, found)
    ELSE [folders |-> <<>>, excel |-> <<>>]

\* the part of scan_fpk_structure's loop body for one root entry; the .xlsx
\* matches come before the .xls matches
ScanItem(item, isPosix) ==
    DateFolder(item, validate_date_folder_name(item.name),
               Glob(item, XLSX, isPosix) \o Glob(item, XLS, isPosix))

\* the lists after one more entry
Extend(h, t) == [folders |-> h.folders \o t.folders, excel |-> h.excel \o t.excel]

RECURSIVE ScanItems(_, _)
ScanItems(items, isPosix) ==
    IF items = <<>> THEN [folders |-> <<>>, excel |-> <<>>]
    ELSE Extend(ScanItem(Head(items), isPosix), ScanItems(Tail(items), isPosix))

RECURSIVE SumFileCount(_)
SumFileCount(folders) ==
    IF folders = <<>> THEN 0 ELSE Head(folders).file_count + SumFileCount(Tail(folders))

\* lines 181-186 and 214-215: the dictionary scan_fpk_structure returns
Results(r) ==
    [date_folders |-> r.folders,
     excel_files |-> r.excel,
     total_files |-> SumFileCount(r.folders),
     total_date_folders |-> Len(r.folders)]

\* a root without date folders reported like a missing root
scan_fpk_structure_none_if_empty(kind, items, isPosix) ==
    IF kind = "absent" THEN None
    ELSE IF kind = "file" THEN NotADirectoryError
    ELSE IF ScanItems(items, isPosix).folders = <<>> THEN None
    ELSE Results(ScanItems(items, isPosix))

\* the value of scan_fpk_structure(input_folder): None, the result dictionary,
\* or NotADirectoryError when os.listdir raises on a root that is a file
scan_fpk_structure(kind, items, isPosix) ==
    IF kind = "absent" THEN None
    ELSE IF kind = "file" THEN NotADirectoryError
    ELSE Results(ScanItems(items, isPosix))

----------------------------------------------------------------------------
(* sanitize_sheet_name                                                     *)

Reserved == {"/", "\\", ":", "*", "?", "\"", "<", ">", "|"}

\* re.sub(r'[\.…]', '_', s) followed by re.sub of the reserved characters
ReplaceChars(s, bad) == [k \in DOMAIN s |-> IF s[k] \in bad THEN "_" ELSE s[k]]

\* runs of underscores left as they are
KeepUnderscores(s) == s

\* re.sub(r'_{2,}', '_', s)
RECURSIVE CollapseUnderscores(_)
CollapseUnderscores(s) ==
    IF Len(s) < 2 THEN s
    ELSE IF s[1] = "_" /\ s[2] = "_" THEN CollapseUnderscores(Tail(s))
    ELSE <<s[1]>> \o CollapseUnderscores(Tail(s))

RECURSIVE LStrip(_)

\* one leading character stripped instead of all of them
LStripOne(s) == IF s # <<>> /\ Head(s) \in {" ", "_"} THEN Tail(s) ELSE s

\* s.strip(' _')
LStrip(s) == IF s # <<>> /\ Head(s) \in {" ", "_"} THEN LStrip(Tail(s)) ELSE s

RECURSIVE RStrip(_)
RStrip(s) ==
    IF s # <<>> /\ s[Len(s)] \in {" ", "_"} THEN RStrip(SubSeq(s, 1, Len(s) - 1)) ELSE s

sanitize_sheet_name(sheet_name) ==
    LET s1 == ReplaceChars(sheet_name, {".", "..."})
        s2 == ReplaceChars(s1, Reserved)
        s3 == CollapseUnderscores(s2)
        s4 == RStrip(LStrip(s3))
    IN  IF s4 = <<>> THEN <<"S", "h", "e", "e", "t">> ELSE s4

----------------------------------------------------------------------------
(* process_excel_file: the per-sheet normalization                         *)

NaN == "NaN"

\* df.iloc[:, 0].isna().sum()
FirstColNaNs(grid) == Cardinality({r \in DOMAIN grid : grid[r][1] = NaN})

\* the column dropped from 80% blank cells on
DropFirstColumnFrom80(grid) ==
    IF Len(grid[1]) > 0 /\ 5 * FirstColNaNs(grid) >= 4 * Len(grid)
    THEN [r \in DOMAIN grid |-> Tail(grid[r])]
    ELSE grid

\* lines 262-266: drop the first column when more than 80% of it is blank
DropFirstColumn(grid) ==
    IF Len(grid[1]) > 0 /\ 5 * FirstColNaNs(grid) > 4 * Len(grid)
    THEN [r \in DOMAIN grid |-> Tail(grid[r])]
    ELSE grid

\* the first row always taken for the header row
HeaderRowFirst(n) == 0

\* lines 268-273
HeaderRow(n) == IF 4 >= n THEN (IF n > 1 THEN (IF 4 < n - 1 THEN 4 ELSE n - 1) ELSE 0) ELSE 4

\* the blank rows kept
KeepNaRows(rows) == rows

RECURSIVE DropNaRows(_)
\* df.dropna(how='all')
DropNaRows(rows) ==
    IF rows = <<>> THEN <<>>
    ELSE (IF \A k \in DOMAIN Head(rows) : Head(rows)[k] = NaN THEN <<>> ELSE <<Head(rows)>>)
         \o DropNaRows(Tail(rows))

\* only a sheet without any row taken for insufficient
InsufficientIfNoRow(grid) == Len(grid) < 1

\* line 253: df.empty or len(df) < 2
Insufficient(grid) == Len(grid) < 2 \/ Len(grid[1]) = 0

\* lines 252-301: the record of a skipped sheet, or the table to write
Normalize(sheet_name, grid, d, isPosix) ==
    IF Insufficient(grid)
    THEN [status |-> "skipped", file_path |-> <<>>,
          reason |-> "Sheet is empty or has insufficient data", sheet_name |-> sheet_name]
    ELSE
      LET g    == DropFirstColumn(grid)
          h    == HeaderRow(Len(g)) + 1                 \* 1-based index of the header row
          cols == g[h]
          rows == DropNaRows(SubSeq(g, h + 1, Len(g)))
      IN  IF rows = <<>> \/ cols = <<>>
          THEN [status |-> "skipped", file_path |-> <<>>,
                reason |-> "No data rows after processing", sheet_name |-> sheet_name]
          ELSE IF "Date" \in Range(cols)
          THEN [status |-> "table", columns |-> cols, rows |-> rows]
          ELSE [status |-> "table", columns |-> <<"Date">> \o cols,
                rows |-> [r \in DOMAIN rows |->
                            <<Strftime(d, <<"-">>, ~isPosix)>> \o rows[r]]]

\* lines 303-310: the output path below base_output_dir, as <<folder, file name>>
OutputPath(sheet_name, d, isPosix) ==
    LET sanitized_sheet_name == sanitize_sheet_name(sheet_name)
    IN  << sanitized_sheet_name,
           sanitized_sheet_name \o <<" ">> \o Strftime(d, <<>>, ~isPosix)
              \o <<".", "c", "s", "v">> >>

\* df.to_csv(index=False): the header line, then one line per row, a blank
\* cell rendered as the empty string
Serialize(t) ==
    <<t.columns>>
    \o [r \in DOMAIN t.rows |->
          [k \in DOMAIN t.rows[r] |-> IF t.rows[r][k] = NaN THEN "" ELSE t.rows[r][k]]]

\* the states a destination can be left in when to_csv stops before its end:
\* never created, or created and holding a proper prefix of the lines
Unfinished(fs, path, lines) ==
    {fs} \cup { [q \in DOMAIN fs \cup {path} |->
                   IF q = path THEN SubSeq(lines, 1, n) ELSE fs[q]] :
                n \in 0..(Len(lines) - 1) }

\* to_csv leaves no file behind
WriteNowhere(fs, path, lines) == fs

WriteFile(fs, path, lines) ==
    [q \in DOMAIN fs \cup {path} |-> IF q = path THEN lines ELSE fs[q]]

----------------------------------------------------------------------------
(* The run: main's processing loop around process_excel_file               *)

MaxRuns == 2
MaxInterrupts == 1

\* the directory entry a scanned path names
ChildAt(path) ==
    LET e == CHOOSE x \in Range(listing) : x.name = path[1]
    IN  CHOOSE c \in Range(e.children) : c.name = path[2]

file_info == scan_results.excel_files[i]

\* the workbook behind the file being processed
Workbook == ChildAt(file_info.path).wb

\* pd.ExcelFile(file_path) succeeds
Opens(path) == ~ChildAt(path).isDir /\ ChildAt(path).wb.openable

Sheet == Workbook.sheets[j]

Scanned == scan_results \notin {Unset, None, NotADirectoryError}

\* line 693
Scan ==
    /\ pc = "idle"
    /\ scan_results' = scan_fpk_structure(rootKind, listing, posix)
    /\ pc' = "scanned"
    /\ UNCHANGED <<dateVars, unitVars, posix, rootKind, listing, run, i, j, df, processed_files,
                   all_results, created_folders, prev_results, dirs, files, written,
                   root0, dirs0, files0, raised, interrupted>>

\* lines 695-710 and 789-807: the run starts only on a scan that found files
StartProcessing ==
    /\ pc = "scanned"
    /\ Scanned
    /\ scan_results.total_files # 0
    /\ all_results' = <<>>
    /\ created_folders' = {}
    /\ i' = 1
    /\ dirs0' = dirs
    /\ pc' = "loop"
    /\ UNCHANGED <<dateVars, unitVars, scanVars, run, j, df, processed_files, prev_results,
                   dirs, files, written, root0, files0, raised, interrupted>>

\* an unopenable workbook reported as an empty result list
OpenFailureEmpty(path) == <<>>

\* lines 343-349: what process_excel_file returns when the workbook cannot be opened
OpenFailure(path) ==
    << [status |-> "error", file_path |-> path, reason |-> "cannot open workbook",
        sheet_name |-> <<"u", "n", "k", "n", "o", "w", "n">>] >>

\* lines 242-247 and 343-349: open the workbook of file i
OpenWorkbook ==
    /\ pc = "loop"
    /\ i <= Len(scan_results.excel_files)
    /\ files0' = files
    /\ raised' = {}
    /\ j' = 1
    /\ IF Opens(file_info.path)
       THEN /\ processed_files' = <<>>
            /\ pc' = "sheet"
       ELSE /\ processed_files' = OpenFailure(file_info.path)
            /\ pc' = "return"
    /\ UNCHANGED <<dateVars, unitVars, scanVars, run, i, df, all_results, created_folders,
                   prev_results, dirs, files, written, root0, dirs0, interrupted>>

\* lines 332-339: the record the sheet's exception handler appends
SheetError(path, sheet_name) ==
    [status |-> "error", file_path |-> path, reason |-> "Sheet processing error",
     sheet_name |-> sheet_name]

\* the existence check left out: every destination is written
ExistsNever(fs, path) == FALSE

\* an empty destination taken for a missing one
ExistsNonEmpty(fs, path) == path \in DOMAIN fs /\ fs[path] # <<>>

\* line 313: os.path.exists(output_path)
Exists(fs, path) == path \in DOMAIN fs

\* lines 312-330: the sheet gave the table t and its destination is path
Destined(sheet, t, path, fs) ==
    IF Exists(fs, path)
    THEN [next |-> "record", mkdir |-> {path[1]},
          rec |-> [status |-> "skipped", file_path |-> path,
                   reason |-> "File already exists", sheet_name |-> sheet.name]]
    ELSE [next |-> "to_csv", mkdir |-> {path[1]}, table |-> t, path |-> path,
          rec |-> [status |-> "success", file_path |-> path,
                   sheet_name |-> sheet.name, rows_processed |-> Len(t.rows)]]

\* os.makedirs run for every sheet that was read, before the normalizer's checks
ReadMakesFolder(sheet, t, path, fs, src) ==
    IF sheet.fault = "read"
    THEN [next |-> "record", rec |-> SheetError(src, sheet.name), mkdir |-> {}]
    ELSE IF t.status = "skipped"
    THEN [next |-> "record", rec |-> t, mkdir |-> {path[1]}]
    ELSE Destined(sheet, t, path, fs)

\* lines 248-301: the sheet cannot be read, holds nothing to write, or goes on
\* to its destination
Read(sheet, t, path, fs, src) ==
    IF sheet.fault = "read"
    THEN [next |-> "record", rec |-> SheetError(src, sheet.name), mkdir |-> {}]
    ELSE IF t.status = "skipped"
    THEN [next |-> "record", rec |-> t, mkdir |-> {}]
    ELSE Destined(sheet, t, path, fs)

\* lines 248-320: one iteration of the sheet loop up to the call of to_csv:
\* the record it appends, or the table it hands to to_csv, and the folder
\* that os.makedirs made sure of
Attempt(sheet, d, fs, src, isPosix) ==
    Read(sheet, Normalize(sheet.name, sheet.grid, d, isPosix),
         OutputPath(sheet.name, d, isPosix), fs, src)

\* the iteration reaches its record, or the call of to_csv
Advance(a) ==
    /\ dirs' = dirs \cup a.mkdir
    /\ IF a.next = "record"
       THEN /\ processed_files' = Append(processed_files, a.rec)
            /\ raised' = IF a.rec.status = "error" THEN raised \cup {j} ELSE raised
            /\ j' = j + 1
            /\ UNCHANGED <<pc, df>>
       ELSE /\ df' = a.table
            /\ pc' = "writing"
            /\ UNCHANGED <<j, processed_files, raised>>

ProcessSheet ==
    /\ pc = "sheet"
    /\ j <= Len(Workbook.sheets)
    /\ Advance(Attempt(Sheet, file_info.date, files, file_info.path, posix))
    /\ UNCHANGED <<dateVars, unitVars, scanVars, run, i, all_results, created_folders,
                   prev_results, files, written, root0, dirs0, files0, interrupted>>

\* the iteration that is waiting in to_csv
Pending == Attempt(Sheet, file_info.date, files, file_info.path, posix)

\* the whole table reaches the destination and the success record is appended
Written(a) ==
    /\ files' = WriteFile(files, a.path, Serialize(df))
    /\ written' = WriteFile(written, a.path, Serialize(df))
    /\ processed_files' = Append(processed_files, a.rec)

\* lines 323-330: to_csv writes the whole table, then the success record
ToCsv ==
    /\ pc = "writing"
    /\ Sheet.fault # "write"
    /\ Written(Pending)
    /\ j' = j + 1
    /\ pc' = "sheet"
    /\ UNCHANGED <<dateVars, unitVars, scanVars, run, i, df, all_results, created_folders,
                   prev_results, dirs, root0, dirs0, files0, raised, interrupted>>

\* the destination is left in one of the states ends
Left(path, ends) ==
    /\ files' \in ends
    /\ written' = IF path \in DOMAIN files'
                  THEN WriteFile(written, path, Serialize(df)) ELSE written

\* lines 323 and 332-339: to_csv raises on this sheet's data; the destination
\* is left as far as the write got
ToCsvRaises ==
    /\ pc = "writing"
    /\ Sheet.fault = "write"
    /\ Left(Pending.path, Unfinished(files, Pending.path, Serialize(df)))
    /\ processed_files' = Append(processed_files, SheetError(file_info.path, Sheet.name))
    /\ raised' = raised \cup {j}
    /\ j' = j + 1
    /\ pc' = "sheet"
    /\ UNCHANGED <<dateVars, unitVars, scanVars, run, i, df, all_results, created_folders,
                   prev_results, dirs, root0, dirs0, files0, interrupted>>

\* lines 821-822: what main adds to a record of the file
Tagged(rec, info) ==
    [f \in DOMAIN rec \cup {"source_file", "date_folder"} |->
       IF f = "source_file" THEN info.path
       ELSE IF f = "date_folder" THEN info.folder_name
       ELSE rec[f]]

\* the skipped records left out of the report
FiledWithoutSkipped(results, info) ==
    LET kept == SelectWhere(results, {r \in Range(results) : r.status # "skipped"})
    IN  [k \in DOMAIN kept |-> Tagged(kept[k], info)]

\* the records of a file appended last sheet first
FiledReversed(results, info) ==
    [k \in DOMAIN results |-> Tagged(results[Len(results) + 1 - k], info)]

\* lines 820-823: the records main appends to all_results for one file
Filed(results, info) == [k \in DOMAIN results |-> Tagged(results[k], info)]

\* lines 826-828: the folders main adds to created_folders for one file
FoldersOfSuccess(results) ==
    {results[k].file_path[1] : k \in {x \in DOMAIN results : results[x].status = "success"}}

\* lines 341 and 818-838: process_excel_file returns and main files its records
ReturnResults ==
    /\ \/ pc = "return"
       \/ pc = "sheet" /\ j > Len(Workbook.sheets)
    /\ all_results' = all_results \o Filed(processed_files, file_info)
    /\ created_folders' = created_folders \cup FoldersOfSuccess(processed_files)
    /\ i' = i + 1
    /\ pc' = "loop"
    /\ UNCHANGED <<dateVars, unitVars, scanVars, run, j, df, processed_files, prev_results, dirs,
                   files, written, root0, dirs0, files0, raised, interrupted>>

\* lines 848-850: the counts of the report
CountStatus(results, status) ==
    Cardinality({k \in DOMAIN results : results[k].status = status})

success_count == CountStatus(all_results, "success")
skipped_count == CountStatus(all_results, "skipped")
error_count   == CountStatus(all_results, "error")

\* lines 840-850: the loop is over and the report is rendered
Finish ==
    /\ pc = "loop"
    /\ i > Len(scan_results.excel_files)
    /\ pc' = "done"
    /\ UNCHANGED <<dateVars, unitVars, scanVars, run, i, j, df, processed_files, all_results,
                   created_folders, prev_results, dirs, files, written, root0, dirs0,
                   files0, raised, interrupted>>

\* the user runs the script again over the same folders
Rerun ==
    /\ pc \in {"done", "stopped"}
    /\ run < MaxRuns
    /\ run' = run + 1
    /\ prev_results' = Append(prev_results, all_results)
    /\ all_results' = <<>>
    /\ created_folders' = {}
    /\ processed_files' = <<>>
    /\ raised' = {}
    /\ scan_results' = Unset
    /\ i' = 0
    /\ j' = 0
    /\ pc' = "idle"
    /\ UNCHANGED <<dateVars, unitVars, posix, rootKind, listing, df, dirs, files, written, root0,
                   dirs0, files0, interrupted>>

\* the process is stopped in the middle of a run; a to_csv in progress leaves
\* its destination as far as it got, possibly complete
Interrupt ==
    /\ pc \in {"loop", "sheet", "writing", "return"}
    /\ interrupted < MaxInterrupts
    /\ interrupted' = interrupted + 1
    /\ pc' = "stopped"
    /\ IF pc = "writing"
       THEN Left(Pending.path, Unfinished(files, Pending.path, Serialize(df))
                                 \cup {WriteFile(files, Pending.path, Serialize(df))})
       ELSE UNCHANGED <<files, written>>
    /\ UNCHANGED <<dateVars, unitVars, scanVars, run, i, j, df, processed_files, all_results,
                   created_folders, prev_results, dirs, root0, dirs0, files0, raised>>

RECURSIVE SheetLoop(_, _, _, _, _)

\* the record of an iteration whose to_csv, if reached, ends as wr tells
Record(a, wr, src, sheet) ==
    IF a.next = "to_csv" /\ ~wr THEN SheetError(src, sheet.name) ELSE a.rec

Cons(rec, rest) == [recs |-> <<rec>> \o rest.recs, files |-> rest.files]

\* the iteration a of the first sheet, then the loop over the others
Iterate(sheets, d, fs, src, isPosix, a, wr) ==
    Cons(Record(a, wr, src, Head(sheets)),
         SheetLoop(Tail(sheets), d,
                   IF wr THEN WriteFile(fs, a.path, Serialize(a.table)) ELSE fs,
                   src, isPosix))

\* the first sheet's to_csv is reached and runs to its end
Writes(a, sheet) == a.next = "to_csv" /\ sheet.fault # "write"

First(sheets, d, fs, src, isPosix, a) ==
    Iterate(sheets, d, fs, src, isPosix, a, Writes(a, Head(sheets)))

\* lines 247-341 as one function of the sheets and the files present: the
\* records of the sheet loop and the files it leaves, when every to_csv runs
\* to its end and a sheet whose to_csv raises leaves no file
SheetLoop(sheets, d, fs, src, isPosix) ==
    IF sheets = <<>> THEN [recs |-> <<>>, files |-> fs]
    ELSE First(sheets, d, fs, src, isPosix, Attempt(Head(sheets), d, fs, src, isPosix))

\* lines 809-838 as one function: the files an uninterrupted run leaves
RECURSIVE RunLoop(_, _, _)
RunLoop(excel_files, fs, isPosix) ==
    IF excel_files = <<>> THEN fs
    ELSE LET info == Head(excel_files)
             fs1  == IF Opens(info.path)
                     THEN SheetLoop(ChildAt(info.path).wb.sheets, info.date, fs,
                                    info.path, isPosix).files
                     ELSE fs
         IN  RunLoop(Tail(excel_files), fs1, isPosix)

----------------------------------------------------------------------------
(* Inputs of the run specification: small input trees and output roots     *)

\* the number of sheets in the whole input tree
MaxSheets == 3

\* a raw sheet of n rows and two columns: column A blank, the header in the
\* fifth row and data below it
RawGrid(n) ==
    [r \in 1..n |-> IF r = 5 THEN <<NaN, "h">> ELSE IF r > 5 THEN <<NaN, "v">> ELSE <<NaN, NaN>>]

\* a sheet whose data makes read_excel ("read") or to_csv ("write") raise,
\* every time it is processed, or neither ("none")
Faults == {"none", "read", "write"}

\* sheets come under three names, two of which the sanitizer maps to one
\* token: "c" without data rows or with data, "a_b" with data, and "a.b"
\* with data under every fault
Sheets ==
    { [name |-> <<"c">>, grid |-> RawGrid(1), fault |-> "none"],
      [name |-> <<"c">>, grid |-> RawGrid(6), fault |-> "none"],
      [name |-> <<"a", "_", "b">>, grid |-> RawGrid(6), fault |-> "none"] }
    \cup { [name |-> <<"a", ".", "b">>, grid |-> RawGrid(6), fault |-> f] : f \in Faults }

\* a workbook's sheet names are pairwise different
SheetLists ==
    UNION { { ss \in [1..n -> Sheets] :
                \A a, b \in 1..n : a # b => ss[a].name # ss[b].name } : n \in 1..MaxSheets }

Workbooks ==
    { [openable |-> FALSE, sheets |-> <<>>] }
    \cup { [openable |-> TRUE, sheets |-> ss] : ss \in SheetLists }

Folder15 == <<"2", "0", "2", "4", "-", "0", "1", "-", "1", "5">>
Folder16 == <<"2", "0", "2", "4", "0", "1", "1", "6">>

\* the k-th deposited file is named a.xlsx, b.xlsx, ...
FileName(k) == << <<"a", "b", "c", "d">>[k] >> \o XLSX

\* deposits: which folder each file lies in and what workbook it is; one file,
\* or two files in one partition or in two
Deposits ==
    { << [folder |-> Folder15, wb |-> w] >> : w \in Workbooks }
    \cup { << [folder |-> Folder15, wb |-> p[1]], [folder |-> f, wb |-> p[2]] >> :
             f \in {Folder15, Folder16},
             p \in {q \in Workbooks \X Workbooks :
                       Len(q[1].sheets) + Len(q[2].sheets) <= MaxSheets} }

RECURSIVE FoldersOf(_)
FoldersOf(deps) ==
    IF deps = <<>> THEN <<>>
    ELSE LET r == FoldersOf(SubSeq(deps, 1, Len(deps) - 1))
             f == deps[Len(deps)].folder
         IN  IF f \in Range(r) THEN r ELSE Append(r, f)

RECURSIVE ChildrenIn(_, _, _)
ChildrenIn(deps, folder, k) ==
    IF k > Len(deps) THEN <<>>
    ELSE (IF deps[k].folder = folder
          THEN << [name |-> FileName(k), isDir |-> FALSE, wb |-> deps[k].wb] >>
          ELSE <<>>) \o ChildrenIn(deps, folder, k + 1)

\* the root listing that holds the deposits
TreeOf(deps) ==
    [k \in DOMAIN FoldersOf(deps) |->
       [name |-> FoldersOf(deps)[k], isDir |-> TRUE,
        children |-> ChildrenIn(deps, FoldersOf(deps)[k], 1)]]

\* a CSV that an earlier, unrelated conversion left in the output root
OldPath == OutputPath(<<"a", "_", "b">>, [year |-> 2024, month |-> 1, day |-> 15], TRUE)
OldLines == << <<"Date", "h">>, <<"2024-01-14", "old">> >>

OutputRoots ==
    { [dirs |-> {}, files |-> <<>>],
      [dirs |-> {OldPath[1]}, files |-> [q \in {OldPath} |-> OldLines]] }

DateIdle == folder_name = <<>> /\ Date = Unset

UnitIdle ==
    /\ raw_name = <<>> /\ sanitized = Unset
    /\ call = Unset /\ outcome = Unset /\ workers = Unset

RunIdle ==
    /\ pc = "idle" /\ run = 1 /\ i = 0 /\ j = 0 /\ df = None
    /\ processed_files = <<>> /\ all_results = <<>> /\ created_folders = {}
    /\ prev_results = <<>> /\ raised = {} /\ interrupted = 0

Init ==
    /\ DateIdle
    /\ UnitIdle
    /\ RunIdle
    /\ posix = TRUE
    /\ rootKind = "dir"
    /\ listing \in {TreeOf(deps) : deps \in Deposits}
    /\ scan_results = Unset
    /\ root0 \in OutputRoots
    /\ dirs = root0.dirs /\ files = root0.files /\ written = root0.files
    /\ dirs0 = root0.dirs /\ files0 = root0.files

\* sequential runs, each carried to its end
Next ==
    \/ Scan
    \/ StartProcessing
    \/ OpenWorkbook
    \/ ProcessSheet
    \/ ToCsv
    \/ ToCsvRaises
    \/ ReturnResults
    \/ Finish
    \/ Rerun

Spec == Init /\ [][Next]_vars

\* runs that can be stopped at any point and started again
InitResume ==
    /\ Init
    /\ \A e \in Range(listing) : \A c \in Range(e.children) :
          \A k \in DOMAIN c.wb.sheets : c.wb.sheets[k].fault = "none"

NextResume ==
    \/ Scan
    \/ StartProcessing
    \/ OpenWorkbook
    \/ ProcessSheet
    \/ ToCsv
    \/ ReturnResults
    \/ Finish
    \/ Rerun
    \/ Interrupt

SpecResume == InitResume /\ [][NextResume]_vars

----------------------------------------------------------------------------
(* The date specification: validate_date_folder_name on one folder name    *)

ValidateFolder ==
    /\ Date = Unset
    /\ Date' = validate_date_folder_name(folder_name)
    /\ UNCHANGED <<folder_name, scanVars, runVars, unitVars>>

InitDate ==
    /\ folder_name \in FolderNames
    /\ Date = Unset
    /\ UnitIdle
    /\ RunIdle
    /\ posix \in BOOLEAN
    /\ rootKind = "absent" /\ listing = <<>> /\ scan_results = Unset
    /\ root0 = [dirs |-> {}, files |-> <<>>]
    /\ dirs = {} /\ files = <<>> /\ written = <<>> /\ dirs0 = {} /\ files0 = <<>>

NextDate == ValidateFolder

SpecDate == InitDate /\ [][NextDate]_vars

----------------------------------------------------------------------------
(* The scan specification: scan_fpk_structure on one input root            *)

\* the number of entries of the root, and of children of its folders in all
MaxEntries == 2
MaxChildren == 2

ScanFolderNames ==
    { Folder15, Folder16, <<"n", "o", "t", "a", "d", "a", "t", "e">> }

NoWorkbook == [openable |-> FALSE, sheets |-> <<>>]

\* what can lie in a folder: spreadsheets in several spellings of the
\* extension, a hidden one, another file type, and a subfolder
ScanChildren ==
    { [name |-> <<"r">> \o XLSX, isDir |-> FALSE, wb |-> NoWorkbook],
      [name |-> <<"R", ".", "X", "L", "S", "X">>, isDir |-> FALSE, wb |-> NoWorkbook],
      [name |-> <<"o">> \o XLS, isDir |-> FALSE, wb |-> NoWorkbook],
      [name |-> <<".", "h">> \o XLSX, isDir |-> FALSE, wb |-> NoWorkbook],
      [name |-> <<"n", ".", "c", "s", "v">>, isDir |-> FALSE, wb |-> NoWorkbook],
      [name |-> <<"k">> \o XLSX, isDir |-> TRUE, wb |-> NoWorkbook] }

\* sequences of at most n different elements of S
DistinctSeqs(S, n) ==
    UNION { { q \in [1..m -> S] : \A a, b \in 1..m : a # b => q[a].name # q[b].name } :
            m \in 0..n }

\* the entries a root can hold whose folders have at most n children in all
ScanEntries(n) ==
    { [name |-> f, isDir |-> TRUE, children |-> c] :
        f \in ScanFolderNames, c \in DistinctSeqs(ScanChildren, n) }
    \cup { [name |-> f, isDir |-> FALSE, children |-> <<>>] : f \in ScanFolderNames }

\* root listings of at most n entries with different names and at most
\* budget children in all
RECURSIVE ScanListings(_, _, _)
ScanListings(n, budget, used) ==
    IF n = 0 THEN { <<>> }
    ELSE { <<>> }
         \cup UNION { { <<e>> \o rest :
                          rest \in ScanListings(n - 1, budget - Len(e.children),
                                                used \cup {e.name}) } :
                      e \in {x \in ScanEntries(budget) : x.name \notin used} }

InitScan ==
    /\ DateIdle
    /\ UnitIdle
    /\ RunIdle
    /\ posix \in BOOLEAN
    /\ rootKind \in {"absent", "dir", "file"}
    /\ listing \in IF rootKind = "dir" THEN ScanListings(MaxEntries, MaxChildren, {})
                              ELSE { <<>> }
    /\ scan_results = Unset
    /\ root0 = [dirs |-> {}, files |-> <<>>]
    /\ dirs = {} /\ files = <<>> /\ written = <<>> /\ dirs0 = {} /\ files0 = <<>>

NextScan == Scan

SpecScan == InitScan /\ [][NextScan]_vars

----------------------------------------------------------------------------
(* The sanitizer specification: sanitize_sheet_name on one sheet name      *)

\* the unit specifications use no input tree and no output root
TreeIdle ==
    /\ posix = TRUE /\ rootKind = "absent" /\ listing = <<>> /\ scan_results = Unset
    /\ root0 = [dirs |-> {}, files |-> <<>>]
    /\ dirs = {} /\ files = <<>> /\ written = <<>> /\ dirs0 = {} /\ files0 = <<>>

MaxNameLen == 4

\* a dot, the ellipsis character (written "..."), two reserved characters,
\* the underscore, the space and a letter
NameChars == {".", "...", "/", "|", "_", " ", "a"}

SheetNames ==
    UNION { [1..n -> NameChars] : n \in 0..MaxNameLen }
    \cup { <<"S", "h", "e", "e", "t">> }

SanitizeName ==
    /\ sanitized = Unset
    /\ sanitized' = [token |-> sanitize_sheet_name(raw_name)]
    /\ UNCHANGED <<dateVars, scanVars, runVars, raw_name, call, outcome, workers>>

InitSanitize ==
    /\ raw_name \in SheetNames
    /\ sanitized = Unset
    /\ call = Unset /\ outcome = Unset /\ workers = Unset
    /\ DateIdle
    /\ RunIdle
    /\ TreeIdle

NextSanitize == SanitizeName

SpecSanitize == InitSanitize /\ [][NextSanitize]_vars

----------------------------------------------------------------------------
(* The sheet specification: process_excel_file on a workbook of one sheet  *)

\* the rows read_excel(header=None) can give a sheet of two columns, and of
\* one column
SheetRows == { <<NaN, NaN>>, <<NaN, "v">>, <<"v", NaN>>, <<"h", "Date">>, <<"Date", "h">> }
NarrowRows == { <<NaN>>, <<"v">> }

\* the rows above the header row of a longer sheet: blank, or text in column A
TopRows == { <<NaN, NaN>>, <<"v", NaN>> }

MaxRows == 8

\* every grid of up to four rows and every grid of one column; the longer
\* grids of two columns have four rows of TopRows above the fifth row
Grids ==
    UNION { [1..n -> NarrowRows] : n \in 0..MaxRows }
    \cup UNION { [1..n -> SheetRows] : n \in 0..4 }
    \cup UNION { { top \o rest : top \in [1..4 -> TopRows], rest \in [1..(n - 4) -> SheetRows] } :
                 n \in 5..MaxRows }

FolderPlain15 == <<"2", "0", "2", "4", "0", "1", "1", "5">>
FolderYear99 == <<"0", "0", "9", "9", "-", "0", "1", "-", "0", "1">>

\* date folders: one day under two grammars, another day, and a year below 1000
CallFolders == {Folder15, FolderPlain15, Folder16, FolderYear99}

CallNames == { <<"c">>, <<"a", ".", "b">>, <<"|">> }

\* the output root is empty, or holds a file at the sheet's destination
Roots(sheet_name, d, isPosix) ==
    { <<>>, WriteFile(<<>>, OutputPath(sheet_name, d, isPosix), << <<"o", "l", "d">> >>) }

Call(sheet_name, grid, fault, folder, file, fs, isPosix) ==
    [sheet |-> [name |-> sheet_name, grid |-> grid, fault |-> fault],
     date_info |-> [date |-> validate_date_folder_name(folder), folder_name |-> folder],
     file_path |-> <<folder, file>>, files |-> fs, posix |-> isPosix]

\* every grid under one name, date and empty root
GridCalls ==
    { Call(<<"c">>, g, "none", Folder15, <<"r", ".", "x", "l", "s", "x">>, <<>>, TRUE) :
        g \in Grids }

\* a grid of one row and a grid with data under every name, date folder,
\* source file, fault, platform and root
PathCalls ==
    UNION { { Call(n, RawGrid(r), f, d, s, fs, p) :
                fs \in Roots(n, validate_date_folder_name(d), p) } :
            r \in {1, 6}, n \in CallNames, f \in Faults, d \in CallFolders,
            s \in { <<"r", ".", "x", "l", "s", "x">>, <<"q", ".", "x", "l", "s">> },
            p \in BOOLEAN }

\* what the call leaves: its records, the files, and the sheet subfolders,
\* which are those of the files that were there and the one os.makedirs made
\* sure of (line 306)
Returned(r, made, fs) ==
    [recs |-> r.recs, files |-> r.files, dirs |-> {q[1] : q \in DOMAIN fs} \cup made]

\* lines 238-349 on a workbook that opens and has the one sheet
ProcessExcelFile ==
    /\ call # Unset
    /\ outcome = Unset
    /\ outcome' = Returned(SheetLoop(<<call.sheet>>, call.date_info.date, call.files,
                                     call.file_path, call.posix),
                           Attempt(call.sheet, call.date_info.date, call.files,
                                   call.file_path, call.posix).mkdir,
                           call.files)
    /\ UNCHANGED <<dateVars, scanVars, runVars, raw_name, sanitized, call, workers>>

InitSheet ==
    /\ call \in GridCalls \cup PathCalls
    /\ raw_name = <<>> /\ sanitized = Unset /\ outcome = Unset /\ workers = Unset
    /\ DateIdle /\ RunIdle /\ TreeIdle

NextSheet == ProcessExcelFile

SpecSheet == InitSheet /\ [][NextSheet]_vars


----------------------------------------------------------------------------
(* The tree specification: runs over roots that hold more than partitions  *)

MaxTreeEntries == 3

NotADate == <<"n", "o", "t", "a", "d", "a", "t", "e">>

DataBook(sheet_name, fault) ==
    [openable |-> TRUE,
     sheets |-> << [name |-> sheet_name, grid |-> RawGrid(6), fault |-> fault] >>]

Folder(name, wb) ==
    [name |-> name, isDir |-> TRUE,
     children |-> << [name |-> FileName(1), isDir |-> FALSE, wb |-> wb] >>]

\* what the root can hold: partitions with a workbook that is exported, that
\* fails in to_csv or that does not open; a folder that is not named as a date
\* and holds a workbook with data; plain files named like a date
TreeEntries ==
    { Folder(Folder15, wb) :
        wb \in {DataBook(<<"c">>, "none"), DataBook(<<"c">>, "write"), NoWorkbook} }
    \cup { Folder(Folder16, DataBook(<<"c">>, "none")),
           Folder(NotADate, DataBook(<<"c">>, "none")) }
    \cup { [name |-> f, isDir |-> FALSE, children |-> <<>>] : f \in {Folder15, Folder16} }

Trees ==
    UNION { { t \in [1..n -> TreeEntries] :
                \A a, b \in 1..n : a # b => t[a].name # t[b].name } :
            n \in 0..MaxTreeEntries }

InitTree ==
    /\ DateIdle
    /\ UnitIdle
    /\ RunIdle
    /\ posix \in BOOLEAN
    /\ rootKind = "dir"
    /\ listing \in Trees
    /\ scan_results = Unset
    /\ root0 = [dirs |-> {}, files |-> <<>>]
    /\ dirs = {} /\ files = <<>> /\ written = <<>> /\ dirs0 = {} /\ files0 = <<>>

SpecTree == InitTree /\ [][Next]_vars


----------------------------------------------------------------------------
(* The race specification: two process_excel_file calls on one output root *)

\* the two concurrent conversions
Procs == {"A", "B"}

\* a sheet like RawGrid(6) with the value x in its data row; the two
\* conversions write CSVs of the same length, so that of two overlapping
\* to_csv calls the one that writes last decides what the file holds
OneRow(x) ==
    [r \in 1..6 |-> IF r = 5 THEN <<NaN, "h">> ELSE IF r > 5 THEN <<NaN, x>> ELSE <<NaN, NaN>>]

Worker(sheet_name, x, folder) ==
    [pc |-> "start",
     sheet |-> [name |-> sheet_name, grid |-> OneRow(x), fault |-> "none"],
     date |-> validate_date_folder_name(folder),
     file_path |-> <<folder, FileName(1)>>,
     a |-> Unset, at |-> {}]

\* A converts the sheet "c" of 2024-01-15; B converts a sheet of the same
\* name, of another name with the same token, or of another token, from a
\* folder of the same day under either grammar or of another day
Workers ==
    { [w \in Procs |-> IF w = "A" THEN Worker(<<"c">>, "v", Folder15)
                                  ELSE Worker(n, "w", f)] :
        n \in { <<"c">>, <<"c", ".">>, <<"d">> },
        f \in { Folder15, FolderPlain15, Folder16 } }

\* lines 304-306: os.makedirs(output_dir, exist_ok=True)
Makedirs(w) ==
    /\ workers[w].pc = "start"
    /\ dirs' = dirs \cup Attempt(workers[w].sheet, workers[w].date, files,
                                 workers[w].file_path, posix).mkdir
    /\ workers' = [workers EXCEPT ![w].pc = "made"]
    /\ UNCHANGED files

\* the check gave the iteration a; at keeps the paths that existed then
Checked(w, a) ==
    workers' = [workers EXCEPT ![w].pc = IF a.next = "record" THEN "done" ELSE "checked",
                               ![w].a = a,
                               ![w].at = DOMAIN files]

\* lines 312-320: os.path.exists(output_path) and the skipped record
ExistsCheck(w) ==
    /\ workers[w].pc = "made"
    /\ Checked(w, Attempt(workers[w].sheet, workers[w].date, files,
                          workers[w].file_path, posix))
    /\ UNCHANGED <<dirs, files>>

\* line 323: to_csv opens the destination, which creates or truncates it
OpenCsv(w) ==
    /\ workers[w].pc = "checked"
    /\ files' = WriteFile(files, workers[w].a.path, <<>>)
    /\ workers' = [workers EXCEPT ![w].pc = "open"]
    /\ UNCHANGED dirs

\* lines 323-330: to_csv writes the table and the success record is appended
WriteCsv(w) ==
    /\ workers[w].pc = "open"
    /\ files' = WriteFile(files, workers[w].a.path, Serialize(workers[w].a.table))
    /\ workers' = [workers EXCEPT ![w].pc = "done"]
    /\ UNCHANGED dirs

InitRace ==
    /\ DateIdle
    /\ RunIdle
    /\ raw_name = <<>> /\ sanitized = Unset /\ call = Unset /\ outcome = Unset
    /\ workers \in Workers
    /\ posix \in BOOLEAN
    /\ rootKind = "absent" /\ listing = <<>> /\ scan_results = Unset
    /\ root0 \in OutputRoots
    /\ dirs = root0.dirs /\ files = root0.files /\ written = <<>>
    /\ dirs0 = root0.dirs /\ files0 = root0.files

NextRace ==
    \E w \in Procs :
        /\ \/ Makedirs(w)
           \/ ExistsCheck(w)
           \/ OpenCsv(w)
           \/ WriteCsv(w)
        /\ UNCHANGED <<dateVars, scanVars, pc, run, i, j, df, processed_files, all_results,
                       created_folders, prev_results, written, root0, dirs0, files0,
                       raised, interrupted, raw_name, sanitized, call, outcome>>

SpecRace == InitRace /\ [][NextRace]_vars


----------------------------------------------------------------------------
(* The column specification: the first-column step of process_excel_file   *)

MaxColumnRows == 10

\* rows of three columns whose second column is blank throughout, and rows
\* of one column
WideRows == { <<NaN, NaN, "v">>, <<"v", NaN, "w">> }

\* the frames that reach line 263: at least two rows
ColumnGrids ==
    UNION { [1..n -> WideRows] \cup [1..n -> NarrowRows] : n \in 2..MaxColumnRows }

\* lines 262-266 on the frame read_excel returned
DropColumn ==
    /\ call # Unset
    /\ outcome = Unset
    /\ outcome' = [grid |-> DropFirstColumn(call.grid)]
    /\ UNCHANGED <<dateVars, scanVars, runVars, raw_name, sanitized, call, workers>>

InitColumn ==
    /\ call \in { [grid |-> g] : g \in ColumnGrids }
    /\ raw_name = <<>> /\ sanitized = Unset /\ outcome = Unset /\ workers = Unset
    /\ DateIdle /\ RunIdle /\ TreeIdle

NextColumn == DropColumn

SpecColumn == InitColumn /\ [][NextColumn]_vars

----------------------------------------------------------------------------
(* The upload specification: process_uploaded_files beside                 *)
(* process_excel_file on one workbook                                      *)

\* lines 490-497: the record of a sheet whose processing raised
UploadError(name, sheet_name) ==
    [status |-> "error", file_path |-> name, reason |-> "Sheet processing error",
     sheet_name |-> sheet_name]

\* lines 425-488: one iteration of process_uploaded_files' sheet loop up to
\* the call of to_csv; the normalization t is that of process_excel_file,
\* the skipped records carry the upload's name, and nothing looks at the
\* destination before it is written
UploadAttempt(sheet, t, path, name) ==
    IF sheet.fault = "read"
    THEN [next |-> "record", rec |-> UploadError(name, sheet.name)]
    ELSE IF t.status = "skipped"
    THEN [next |-> "record", rec |-> [t EXCEPT !.file_path = name]]
    ELSE [next |-> "to_csv", table |-> t, path |-> path,
          rec |-> [status |-> "success", file_path |-> path,
                   sheet_name |-> sheet.name, rows_processed |-> Len(t.rows)]]

RECURSIVE UploadLoop(_, _, _, _, _)

\* the iteration a of the first sheet, whose to_csv, if reached, ends as wr
\* tells, then the loop over the other sheets
UploadIterate(sheets, d, fs, name, isPosix, a, wr) ==
    Cons(IF a.next = "to_csv" /\ ~wr THEN UploadError(name, Head(sheets).name) ELSE a.rec,
         UploadLoop(Tail(sheets), d,
                    IF wr THEN WriteFile(fs, a.path, Serialize(a.table)) ELSE fs,
                    name, isPosix))

UploadFirst(sheets, d, fs, name, isPosix, a) ==
    UploadIterate(sheets, d, fs, name, isPosix, a, Writes(a, Head(sheets)))

\* lines 422-497 as one function of the sheets and the files present, under
\* the conventions of SheetLoop
UploadLoop(sheets, d, fs, name, isPosix) ==
    IF sheets = <<>> THEN [recs |-> <<>>, files |-> fs]
    ELSE UploadFirst(sheets, d, fs, name, isPosix,
                     UploadAttempt(Head(sheets),
                                   Normalize(Head(sheets).name, Head(sheets).grid, d, isPosix),
                                   OutputPath(Head(sheets).name, d, isPosix), name))

\* one workbook, one date and one output root given to both functions
BothCalls ==
    { [sheets |-> ss, date |-> validate_date_folder_name(Folder15),
       file_path |-> <<Folder15, FileName(1)>>, files |-> r.files, posix |-> p] :
        ss \in SheetLists, r \in OutputRoots, p \in BOOLEAN }

ProcessBoth ==
    /\ call # Unset
    /\ outcome = Unset
    /\ outcome' = [excel |-> SheetLoop(call.sheets, call.date, call.files,
                                       call.file_path, call.posix),
                   uploaded |-> UploadLoop(call.sheets, call.date, call.files,
                                           call.file_path[2], call.posix)]
    /\ UNCHANGED <<dateVars, scanVars, runVars, raw_name, sanitized, call, workers>>

InitUpload ==
    /\ call \in BothCalls
    /\ raw_name = <<>> /\ sanitized = Unset /\ outcome = Unset /\ workers = Unset
    /\ DateIdle /\ RunIdle /\ TreeIdle

NextUpload == ProcessBoth

SpecUpload == InitUpload /\ [][NextUpload]_vars


----------------------------------------------------------------------------
(* Properties                                                              *)

IsExistsSkip(r) == r.status = "skipped" /\ r.reason = "File already exists"

\* the sheet attempts of an input file: its sheets, or the one attempt to open it
Attempts(info) ==
    IF Opens(info.path) THEN Len(ChildAt(info.path).wb.sheets) ELSE 1

RECURSIVE TotalAttempts(_)
TotalAttempts(excel_files) ==
    IF excel_files = <<>> THEN 0
    ELSE Attempts(Head(excel_files)) + TotalAttempts(Tail(excel_files))

\* the positions of the report that belong to an input file
RecordsOf(path) == {k \in DOMAIN all_results : all_results[k].source_file = path}

\* C1: when a run that follows a completed run over the same tree and output
\* root is over, its report has no success record, and every sheet that was
\* a success in the first run has a "File already exists" skip naming the
\* same output path.
C1_RerunOnlySkips ==
    (pc = "done" /\ run >= 2) =>
        /\ \A k \in DOMAIN all_results : all_results[k].status # "success"
        /\ \A k \in DOMAIN prev_results[1] :
              prev_results[1][k].status = "success" =>
                 \E m \in DOMAIN all_results :
                    /\ all_results[m].source_file = prev_results[1][k].source_file
                    /\ all_results[m].sheet_name = prev_results[1][k].sheet_name
                    /\ IsExistsSkip(all_results[m])
                    /\ all_results[m].file_path = prev_results[1][k].file_path

C1_Witness ==
    /\ pc = "done" /\ run = 2
    /\ \E k \in DOMAIN prev_results[1] : prev_results[1][k].status = "success"
    /\ \E m \in DOMAIN all_results : IsExistsSkip(all_results[m])

\* C2: every file that existed when the current process_excel_file call began
\* still exists with the same lines, and no success record of the call names
\* a path that existed then.
C2_ExistingFilesKept ==
    /\ \A q \in DOMAIN files0 : q \in DOMAIN files /\ files[q] = files0[q]
    /\ \A k \in DOMAIN processed_files :
          processed_files[k].status = "success" =>
             processed_files[k].file_path \notin DOMAIN files0

C2_Witness ==
    \E k \in DOMAIN processed_files :
       /\ IsExistsSkip(processed_files[k])
       /\ processed_files[k].file_path \in DOMAIN files0
       /\ files[processed_files[k].file_path] = files0[processed_files[k].file_path]

\* C3: every file under the output root holds all the lines its writer was
\* asked to write: a destination is absent or complete, never partial.
C3_FilesComplete == \A q \in DOMAIN files : files[q] = written[q]

\* C4: when a full run that follows an interrupted run is over, the output
\* files are those that one uninterrupted run from the same initial output
\* root leaves.
C4_ResumeEqualsFullRun ==
    (pc = "done" /\ interrupted > 0) =>
        files = RunLoop(scan_results.excel_files, root0.files, posix)

\* C5: at the end of a run every record has one of the three statuses, the
\* three counts add up to the number of records, and that number is the
\* number of sheets of the openable workbooks plus one per unopenable one.
C5_CountsPartition ==
    pc = "done" =>
        /\ \A k \in DOMAIN all_results :
              all_results[k].status \in {"success", "skipped", "error"}
        /\ success_count + skipped_count + error_count = Len(all_results)
        /\ Len(all_results) = TotalAttempts(scan_results.excel_files)

C5_Witness ==
    /\ pc = "done"
    /\ success_count > 0 /\ skipped_count > 0 /\ error_count > 1
    /\ \E k \in DOMAIN scan_results.excel_files : ~Opens(scan_results.excel_files[k].path)

\* the workbook of the current call with the fault of sheet f taken away
Healthy(f) == [Workbook.sheets EXCEPT ![f].fault = "none"]

\* C6: when the sheet loop of an opened workbook is over and exactly one sheet
\* raised, there is one record per sheet, in sheet order, the failing sheet's
\* record is the only error, and every other sheet has the record it has
\* when the failing sheet does not fail.
C6_OneErrorSiblingsUnchanged ==
    (pc = "sheet" /\ j > Len(Workbook.sheets) /\ Cardinality(raised) = 1) =>
        LET f == CHOOSE x \in raised : TRUE
            expected == SheetLoop(Healthy(f), file_info.date, files0,
                                  file_info.path, posix).recs
        IN  /\ Len(processed_files) = Len(Workbook.sheets)
            /\ \A k \in DOMAIN processed_files :
                  /\ processed_files[k].sheet_name = Workbook.sheets[k].name
                  /\ (processed_files[k].status = "error") = (k = f)
                  /\ k # f => processed_files[k].status \in {"success", "skipped"}
                  /\ k # f => processed_files[k] = expected[k]

\* C7: a workbook that cannot be opened yields exactly one record, an error
\* with sheet name "unknown", and at the end of the run every file of the
\* scan list, also those after it, has its records in the report.
C7_UnopenableIsOneError ==
    /\ pc = "return" =>
          /\ Len(processed_files) = 1
          /\ processed_files[1].status = "error"
          /\ processed_files[1].sheet_name = <<"u", "n", "k", "n", "o", "w", "n">>
    /\ pc = "done" =>
          \A k \in DOMAIN scan_results.excel_files :
             LET info == scan_results.excel_files[k]
             IN  /\ Cardinality(RecordsOf(info.path)) = Attempts(info)
                 /\ ~Opens(info.path) =>
                       \A m \in RecordsOf(info.path) :
                          /\ all_results[m].status = "error"
                          /\ all_results[m].sheet_name = <<"u", "n", "k", "n", "o", "w", "n">>

C7_Witness ==
    /\ pc = "done"
    /\ Len(scan_results.excel_files) = 2
    /\ ~Opens(scan_results.excel_files[1].path)
    /\ \E m \in RecordsOf(scan_results.excel_files[2].path) :
          all_results[m].status = "success"

\* the root entries that the scan takes for date partitions
Partitions == {e \in Range(listing) : e.isDir /\ validate_date_folder_name(e.name) # None}

EmptyScan == [date_folders |-> <<>>, excel_files |-> <<>>, total_files |-> 0,
              total_date_folders |-> 0]

SpreadsheetPaths ==
    UNION { { <<e.name, c.name>> :
                c \in {x \in Range(e.children) :
                         /\ ~x.isDir
                         /\ EndsWith(Lower(x.name), XLSX) \/ EndsWith(Lower(x.name), XLS)} } :
            e \in Partitions }

\* C9: the scan lists exactly the immediate child files of the partitions
\* whose extension is .xlsx or .xls in any letter case, each once.
C9_ListsSpreadsheetsAnyCase ==
    (pc = "scanned" /\ rootKind = "dir") =>
        /\ {scan_results.excel_files[k].path : k \in DOMAIN scan_results.excel_files}
              = SpreadsheetPaths
        /\ Len(scan_results.excel_files) = Cardinality(SpreadsheetPaths)
        /\ scan_results.total_files = Cardinality(SpreadsheetPaths)

\* C10: an accepted folder name is reproduced by writing the returned date in
\* the grammar that matched, with a four-digit year and two-digit month and day.
C10_FormatReproducesName ==
    (Date # Unset /\ Date # None) =>
        Strftime(Date, date_patterns[MatchedPattern(folder_name)], TRUE) = folder_name


\* the grammar (1..4, in the order YYYY-MM-DD, YYYY.MM.DD, YYYY_MM_DD,
\* YYYYMMDD) whose shape of digits and separators the name has, or 0
ShapeOf(name) ==
    IF Len(name) = 10 /\ name[5] = name[8] /\ name[5] \in {"-", ".", "_"}
       /\ \A k \in {1, 2, 3, 4, 6, 7, 9, 10} : IsDigit(name[k])
    THEN (IF name[5] = "-" THEN 1 ELSE IF name[5] = "." THEN 2 ELSE 3)
    ELSE IF Len(name) = 8 /\ \A k \in 1..8 : IsDigit(name[k]) THEN 4
    ELSE 0

\* the lengths of the months of the Gregorian calendar
CalendarDays(y, m) ==
    IF m = 2 /\ ((y % 4 = 0 /\ y % 100 # 0) \/ y % 400 = 0) THEN 29
    ELSE <<31, 28, 31, 30, 31, 30, 31, 31, 30, 31, 30, 31>>[m]

OnCalendar(y, m, d) == m \in 1..12 /\ d >= 1 /\ d <= CalendarDays(y, m)

\* the year, month and day that the digits of a name of grammar k spell
Spelled(name, k) ==
    [year  |-> IntOf(name, 1, 4),
     month |-> IntOf(name, 5 + Len(date_patterns[k]), 2),
     day   |-> IntOf(name, 7 + 2 * Len(date_patterns[k]), 2)]

\* C11: a name that has the shape of no grammar, or the shape of one but
\* spells a month outside 1..12 or a day outside the month (leap years
\* counted), is answered with None; and a date is returned only when the
\* name spells a day of the calendar, and it is that day.
C11_OnlyCalendarDates ==
    Date # Unset =>
        /\ ShapeOf(folder_name) = 0 => Date = None
        /\ ShapeOf(folder_name) # 0 =>
              LET t == Spelled(folder_name, ShapeOf(folder_name))
              IN  /\ ~OnCalendar(t.year, t.month, t.day) => Date = None
                  /\ Date # None => (OnCalendar(t.year, t.month, t.day) /\ Date = t)

\* 29 February of a year that is not a leap year by the century rule is rejected
C11_Witness ==
    /\ Date = None
    /\ ShapeOf(folder_name) = 1
    /\ Spelled(folder_name, 1) = [year |-> 1900, month |-> 2, day |-> 29]


\* C12: sanitizing the sanitizer's output gives that output again.
C12_SanitizeIdempotent ==
    sanitized # Unset => sanitize_sheet_name(sanitized.token) = sanitized.token

\* a name that every step of the sanitizer changes
C12_Witness ==
    /\ sanitized # Unset
    /\ Len(raw_name) = MaxNameLen
    /\ raw_name[1] = " " /\ raw_name[2] = "_"
    /\ \E k \in DOMAIN raw_name : raw_name[k] \in Reserved
    /\ sanitized.token # raw_name /\ sanitized.token # <<"S", "h", "e", "e", "t">>


Forbidden == {"/", "\\", ":", "*", "?", "\"", "<", ">", "|", ".", "..."}

Untouched(name) ==
    /\ name # <<>>
    /\ \A k \in DOMAIN name : name[k] \notin Forbidden
    /\ \A k \in 1..(Len(name) - 1) : ~(name[k] = "_" /\ name[k + 1] = "_")
    /\ name[1] \notin {"_", " "} /\ name[Len(name)] \notin {"_", " "}

\* C13: the sanitizer's output has no reserved character, dot or ellipsis,
\* no run of two or more underscores, no leading or trailing underscore or
\* space, and is never empty: it is 'Sheet' when every character of the
\* input was replaced or stripped.
C13_SanitizedIsSafe ==
    sanitized # Unset =>
        /\ Untouched(sanitized.token)
        /\ (\A k \in DOMAIN raw_name : raw_name[k] \in Forbidden \cup {"_", " "})
              => sanitized.token = <<"S", "h", "e", "e", "t">>

C13_Witness ==
    /\ sanitized # Unset
    /\ raw_name = <<"a", ".", "|", "a">>
    /\ sanitized.token = <<"a", "_", "a">>


\* C14: two different sheet names never sanitize to the same token.
C14_NoCollision ==
    sanitized # Unset =>
        \A other \in SheetNames :
            other # raw_name => sanitize_sheet_name(other) # sanitized.token


\* the eight digits of a date folder's name written in ASCII digits
EightDigits(name) == SelectSeq(name, LAMBDA c : c \in Range(AsciiDigit))

Exported(r) ==
    r.status = "success" \/ (r.status = "skipped" /\ r.reason = "File already exists")

\* C15: the path of every success record and of every 'File already exists'
\* record is <S>/<S> <YYYYMMDD>.csv below the output root, with S the
\* sanitized sheet name and YYYYMMDD the eight digits of the partition date,
\* whatever the source file and the grammar of the folder name.
C15_PathOfSheetAndDate ==
    outcome # Unset =>
        \A k \in DOMAIN outcome.recs :
            Exported(outcome.recs[k]) =>
                outcome.recs[k].file_path =
                    << sanitize_sheet_name(call.sheet.name),
                       sanitize_sheet_name(call.sheet.name) \o <<" ">>
                          \o EightDigits(call.date_info.folder_name)
                          \o <<".", "c", "s", "v">> >>


\* C16: a sheet with fewer than two raw rows gives exactly one record, a
\* skipped one for insufficient data, and writes nothing; neither the other
\* normalization steps nor the check of the destination come before it.
C16_FewRowsOnlySkipped ==
    (outcome # Unset /\ Len(call.sheet.grid) < 2 /\ call.sheet.fault # "read") =>
        /\ outcome.recs = << [status |-> "skipped", file_path |-> <<>>,
                              reason |-> "Sheet is empty or has insufficient data",
                              sheet_name |-> call.sheet.name] >>
        /\ outcome.files = call.files

C16_Witness ==
    /\ outcome # Unset
    /\ Len(call.sheet.grid) = 1
    /\ call.sheet.fault = "none"
    /\ call.files # <<>>
    /\ Len(outcome.recs) = 1 /\ outcome.recs[1].status = "skipped"


\* C17: the header line of every CSV that process_excel_file writes starts
\* with the column 'Date'.
C17_FirstColumnIsDate ==
    outcome # Unset =>
        \A k \in DOMAIN outcome.recs :
            outcome.recs[k].status = "success" =>
                outcome.files[outcome.recs[k].file_path][1][1] = "Date"


\* the claim's own reading of a raw grid: the 1-based position of the header
\* row, whether column A goes, and the rows below the header that keep a value
HeaderAt(grid) == (IF Len(grid) - 1 < 4 THEN Len(grid) - 1 ELSE 4) + 1

ColumnAGoes(grid) ==
    10 * Cardinality({r \in DOMAIN grid : grid[r][1] = NaN}) > 8 * Len(grid)

KeptColumns(grid) == (IF ColumnAGoes(grid) THEN 2 ELSE 1)..Len(grid[1])

DataRows(grid) ==
    {r \in (HeaderAt(grid) + 1)..Len(grid) : \E k \in KeptColumns(grid) : grid[r][k] # NaN}

HeaderCells(grid) == [k \in 1..Cardinality(KeptColumns(grid)) |->
                        grid[HeaderAt(grid)][k + Len(grid[1]) - Cardinality(KeptColumns(grid))]]

\* C20: for a sheet of at least two raw rows whose destination does not
\* exist, the header row is row min(4, n-1) (0-based), the sheet is exported
\* exactly when a row below the header keeps a value after the optional drop
\* of column A, rows_processed is the number of such rows, and the CSV holds
\* the header line and one line for each of them.
C20_HeaderAndRowCount ==
    (/\ outcome # Unset
     /\ Len(call.sheet.grid) >= 2
     /\ call.sheet.fault = "none"
     /\ call.files = <<>>) =>
        /\ Len(outcome.recs) = 1
        /\ outcome.recs[1].status = "success" <=> DataRows(call.sheet.grid) # {}
        /\ outcome.recs[1].status # "success" =>
              /\ outcome.recs[1].status = "skipped"
              /\ outcome.files = <<>>
        /\ outcome.recs[1].status = "success" =>
              /\ outcome.recs[1].rows_processed = Cardinality(DataRows(call.sheet.grid))
              /\ Len(outcome.files[outcome.recs[1].file_path])
                    = 1 + Cardinality(DataRows(call.sheet.grid))
              /\ outcome.files[outcome.recs[1].file_path][1]
                    \in { HeaderCells(call.sheet.grid),
                          <<"Date">> \o HeaderCells(call.sheet.grid) }

\* column A is dropped and, of the rows below the header, one is blank from
\* the start, one is blank once column A is gone and one keeps a value
C20_Witness ==
    /\ outcome # Unset
    /\ Len(call.sheet.grid) = MaxRows
    /\ ColumnAGoes(call.sheet.grid)
    /\ \E r \in 6..MaxRows : call.sheet.grid[r] = <<"v", NaN>>
    /\ \E r \in 6..MaxRows : call.sheet.grid[r] = <<NaN, NaN>>
    /\ outcome.recs[1].status = "success"
    /\ outcome.recs[1].rows_processed = 1


\* an entry of the root that is no partition: not a directory, or a
\* directory whose name is not a date
NoPartition(e) == ~e.isDir \/ e.name = <<"n", "o", "t", "a", "d", "a", "t", "e">>

RecordsFrom(results, name) ==
    {k \in DOMAIN results : results[k].date_folder = name \/ results[k].source_file[1] = name}

\* C18: every scanned file is an immediate child of a directory of the root
\* whose name is accepted as a date, and carries that directory's name and
\* date; an entry that is not a directory, or a directory not named as a
\* date, gives no partition, no file and no record of any run.
C18_OnlyDateFolders ==
    /\ Scanned =>
          /\ \A k \in DOMAIN scan_results.excel_files :
                \E e \in Range(listing) :
                    /\ e.isDir
                    /\ validate_date_folder_name(e.name) # None
                    /\ scan_results.excel_files[k].date = validate_date_folder_name(e.name)
                    /\ scan_results.excel_files[k].folder_name = e.name
                    /\ \E c \in Range(e.children) :
                          scan_results.excel_files[k].path = <<e.name, c.name>>
          /\ \A e \in Range(listing) :
                NoPartition(e) =>
                    /\ \A k \in DOMAIN scan_results.date_folders :
                          scan_results.date_folders[k].name # e.name
                    /\ \A k \in DOMAIN scan_results.excel_files :
                          scan_results.excel_files[k].path[1] # e.name
    /\ \A e \in Range(listing) :
          NoPartition(e) =>
              /\ RecordsFrom(all_results, e.name) = {}
              /\ \A r \in DOMAIN prev_results : RecordsFrom(prev_results[r], e.name) = {}

\* a finished run over a root that holds a folder not named as a date with a
\* workbook in it, a plain file named like a date, and a partition whose
\* workbook was exported
C18_Witness ==
    /\ pc = "done"
    /\ \E e \in Range(listing) : e.isDir /\ NoPartition(e) /\ e.children # <<>>
    /\ \E e \in Range(listing) : ~e.isDir /\ validate_date_folder_name(e.name) # None
    /\ \E k \in DOMAIN all_results : all_results[k].status = "success"


\* the destination of a concurrent conversion
DestOf(w) == OutputPath(workers[w].sheet.name, workers[w].date, posix)

\* C19: each of two interleaved conversions decides on what os.path.exists
\* saw at its own check: it records success, and writes, exactly when its
\* destination did not exist then, and 'File already exists' exactly when it
\* did; so two conversions of the same sheet name and date that both check
\* before either opens the file both write it and both record success for
\* the one path.
C19_BothPassTheCheck ==
    workers # Unset =>
        /\ \A w \in Procs :
              /\ workers[w].pc \in {"checked", "open"} => DestOf(w) \notin workers[w].at
              /\ workers[w].pc = "done" =>
                    /\ workers[w].a.rec.file_path = DestOf(w)
                    /\ workers[w].a.rec.status = "success" <=> DestOf(w) \notin workers[w].at
                    /\ workers[w].a.rec.status # "success" =>
                          /\ workers[w].a.rec.status = "skipped"
                          /\ workers[w].a.rec.reason = "File already exists"
                    /\ DestOf(w) \in DOMAIN files
        /\ (/\ \A w \in Procs : workers[w].pc = "done"
            /\ DestOf("A") = DestOf("B")
            /\ \A w \in Procs : DestOf(w) \notin workers[w].at)
              => /\ workers["A"].a.rec.status = "success"
                 /\ workers["B"].a.rec.status = "success"
                 /\ workers["A"].a.rec.file_path = workers["B"].a.rec.file_path

\* both conversions of the sheet "c" of 2024-01-15 are over, each recorded
\* success for the same path, and the file holds what one of them wrote
C19_Witness ==
    /\ workers # Unset
    /\ \A w \in Procs : workers[w].pc = "done" /\ workers[w].a.rec.status = "success"
    /\ workers["A"].sheet.name = workers["B"].sheet.name
    /\ workers["A"].date = workers["B"].date
    /\ workers["A"].a.rec.file_path = workers["B"].a.rec.file_path
    /\ files[workers["A"].a.rec.file_path] = Serialize(workers["A"].a.table)


\* C21: a sheet of two to five raw rows has no row below its header row: it
\* gives exactly one skipped record with the reason 'No data rows after
\* processing' and writes nothing; so a success record needs six raw rows.
C21_ShortSheetHasNoData ==
    (outcome # Unset /\ call.sheet.fault # "read") =>
        /\ Len(call.sheet.grid) \in 2..5 =>
              /\ outcome.recs = << [status |-> "skipped", file_path |-> <<>>,
                                    reason |-> "No data rows after processing",
                                    sheet_name |-> call.sheet.name] >>
              /\ outcome.files = call.files
        /\ \A k \in DOMAIN outcome.recs :
              outcome.recs[k].status = "success" => Len(call.sheet.grid) >= 6

\* a sheet of five rows, each with a value, has been processed
C21_Witness ==
    /\ outcome # Unset
    /\ Len(call.sheet.grid) = 5
    /\ \A r \in 1..5 : call.sheet.grid[r] = <<"v", NaN>>
    /\ outcome.recs[1].status = "skipped"


\* the number of blank cells in the first column of a raw grid
BlankInA(grid) == Cardinality({r \in DOMAIN grid : grid[r][1] = "NaN"})

IsoOf(name) ==
    SubSeq(EightDigits(name), 1, 4) \o <<"-">> \o SubSeq(EightDigits(name), 5, 6)
       \o <<"-">> \o SubSeq(EightDigits(name), 7, 8)

\* the CSV line of raw row r: the cells of the kept columns, a blank cell empty
LineOf(grid, r) ==
    [k \in 1..Cardinality(KeptColumns(grid)) |->
       IF grid[r][k + Len(grid[1]) - Cardinality(KeptColumns(grid))] = "NaN" THEN ""
       ELSE grid[r][k + Len(grid[1]) - Cardinality(KeptColumns(grid))]]

\* the position in the CSV of the line of data row r
LineAt(grid, r) == 1 + Cardinality({q \in DataRows(grid) : q <= r})

\* C23: when the header row has no cell 'Date', the CSV has the column 'Date'
\* in front of the sheet's columns and every line starts with the partition
\* date as YYYY-MM-DD; when it has one, the CSV holds the sheet's columns and
\* cells and nothing else.
C23_DateColumnAdded ==
    (outcome # Unset /\ Len(outcome.recs) = 1 /\ outcome.recs[1].status = "success") =>
        IF "Date" \in Range(HeaderCells(call.sheet.grid))
        THEN /\ outcome.files[outcome.recs[1].file_path][1] = HeaderCells(call.sheet.grid)
             /\ \A r \in DataRows(call.sheet.grid) :
                   outcome.files[outcome.recs[1].file_path][LineAt(call.sheet.grid, r)]
                      = LineOf(call.sheet.grid, r)
        ELSE /\ outcome.files[outcome.recs[1].file_path][1]
                   = <<"Date">> \o HeaderCells(call.sheet.grid)
             /\ \A r \in DataRows(call.sheet.grid) :
                   outcome.files[outcome.recs[1].file_path][LineAt(call.sheet.grid, r)]
                      = <<IsoOf(call.date_info.folder_name)>> \o LineOf(call.sheet.grid, r)


\* the number of records the first n scanned files give
RecordsBefore(n) == TotalAttempts(SubSeq(scan_results.excel_files, 1, n))

\* the sheet name in the m-th record of a scanned file
NameInRecord(info, m) ==
    IF Opens(info.path) THEN ChildAt(info.path).wb.sheets[m].name
    ELSE <<"u", "n", "k", "n", "o", "w", "n">>

\* C24: files are processed one at a time in scan order and sheets in the
\* workbook's order: the report holds, file after file in scan order, the
\* records of each completed file in sheet order, and while a file is being
\* processed the report holds all records of the files before it and none
\* of a later one.
C24_OneFileAtATime ==
    (Scanned /\ pc \in {"loop", "sheet", "writing", "return", "done"}) =>
        /\ i \in 1..(Len(scan_results.excel_files) + 1)
        /\ Len(all_results) = RecordsBefore(i - 1)
        /\ \A f \in 1..(i - 1) :
              \A m \in 1..Attempts(scan_results.excel_files[f]) :
                  /\ all_results[RecordsBefore(f - 1) + m].source_file
                        = scan_results.excel_files[f].path
                  /\ all_results[RecordsBefore(f - 1) + m].sheet_name
                        = NameInRecord(scan_results.excel_files[f], m)
        /\ pc \in {"sheet", "writing"} =>
              /\ Len(processed_files) = j - 1
              /\ \A m \in 1..(j - 1) : processed_files[m].sheet_name = Workbook.sheets[m].name
        /\ pc = "done" => i = Len(scan_results.excel_files) + 1

\* a finished run over two files, the first with two sheets
C24_Witness ==
    /\ pc = "done"
    /\ Len(scan_results.excel_files) = 2
    /\ Attempts(scan_results.excel_files[1]) = 2
    /\ Len(all_results) = 3
    /\ all_results[1].sheet_name # all_results[2].sheet_name
    /\ all_results[3].source_file = scan_results.excel_files[2].path


\* C25: at the end of a run the reported created folders are exactly the
\* sheet subfolders that did not exist when the run started and exist now.
C25_ReportedFoldersWereCreated ==
    pc = "done" => created_folders = dirs \ dirs0


RECURSIVE Flatten(_)
Flatten(reports) == IF reports = <<>> THEN <<>> ELSE Head(reports) \o Flatten(Tail(reports))

\* every record emitted so far on this output root, in the order of emission:
\* the earlier runs, the files of this run that returned, the file in progress
Emitted ==
    Flatten(prev_results) \o all_results
       \o (IF pc \in {"sheet", "writing", "return"}
           THEN [k \in DOMAIN processed_files |->
                   [f \in DOMAIN processed_files[k] \cup {"source_file", "date_folder"} |->
                      IF f = "source_file" THEN scan_results.excel_files[i].path
                      ELSE IF f = "date_folder" THEN scan_results.excel_files[i].folder_name
                      ELSE processed_files[k][f]]]
           ELSE <<>>)

\* the path a record's sheet is destined for: <S>/<S> <YYYYMMDD>.csv with the
\* eight digits of its date folder
Target(r) ==
    << sanitize_sheet_name(r.sheet_name),
       sanitize_sheet_name(r.sheet_name) \o <<" ">> \o EightDigits(r.date_folder)
          \o <<".", "c", "s", "v">> >>

\* the sheet a record is about
SheetOf(r) ==
    CHOOSE s \in Range(ChildAt(r.source_file).wb.sheets) : s.name = r.sheet_name

\* C26: over all runs on one output root a path gets at most one success
\* record; after the success every attempt that reaches the same
\* destination, from whatever file, is skipped as 'File already exists':
\* none is a success and none gets as far as to_csv.
C26_OneSuccessPerPath ==
    LET e == Emitted
        t == [k \in DOMAIN e |-> Target(e[k])]
    IN  \A a \in DOMAIN e :
            e[a].status = "success" =>
                \A b \in (a + 1)..Len(e) :
                    t[b] = e[a].file_path =>
                        /\ e[b].status # "success"
                        /\ e[b].status = "error" => SheetOf(e[b]).fault = "read"
                        /\ (e[b].status = "skipped" /\ SheetOf(e[b]).fault = "none"
                              /\ Len(SheetOf(e[b]).grid) >= 6) => IsExistsSkip(e[b])

\* the end of a second run: in the first run a path was written for one file
\* and skipped as existing for a sheet of another name in another file, and
\* the second run recorded no success
C26_Witness ==
    /\ run = 2 /\ pc = "done"
    /\ \E a, b \in DOMAIN Emitted :
          /\ a < b /\ b <= Len(prev_results[1])
          /\ Emitted[a].status = "success"
          /\ IsExistsSkip(Emitted[b])
          /\ Emitted[b].file_path = Emitted[a].file_path
          /\ Emitted[b].source_file # Emitted[a].source_file
          /\ Emitted[b].sheet_name # Emitted[a].sheet_name
    /\ \A k \in DOMAIN all_results : all_results[k].status # "success"


\* C27: on an output root that was empty at the start, a record 'File
\* already exists' for a path comes only after a success record for that
\* path, of this run or of an earlier one.
C27_SkipFollowsSuccess ==
    root0.files = <<>> =>
        LET e == Emitted
        IN  \A b \in DOMAIN e :
                IsExistsSkip(e[b]) =>
                    \E a \in 1..(b - 1) :
                        /\ e[a].status = "success"
                        /\ e[a].file_path = e[b].file_path


\* the sheet subfolders of the files of an output root
FoldersIn(fs) == {q[1] : q \in DOMAIN fs}

NormalizerSkip(r) ==
    /\ r.status = "skipped"
    /\ r.reason \in {"Sheet is empty or has insufficient data", "No data rows after processing"}

\* C28: a sheet that the normalizer skips leaves the output root as it was,
\* without a new subfolder or file; a subfolder is made only for a sheet
\* that got as far as the existence check.
C28_SkippedSheetLeavesNoFolder ==
    (outcome # Unset /\ Len(outcome.recs) = 1) =>
        /\ NormalizerSkip(outcome.recs[1]) =>
              /\ outcome.files = call.files
              /\ outcome.dirs = FoldersIn(call.files)
        /\ outcome.dirs # FoldersIn(call.files) =>
              \/ outcome.recs[1].status = "success"
              \/ outcome.recs[1].status = "error" /\ call.sheet.fault = "write"

\* a sheet of MaxRows rows whose rows below the header are blank was skipped
\* on an empty output root
C28_Witness ==
    /\ outcome # Unset
    /\ Len(call.sheet.grid) = MaxRows
    /\ call.files = <<>>
    /\ outcome.recs[1].status = "skipped"
    /\ outcome.recs[1].reason = "No data rows after processing"
    /\ outcome.dirs = {}


\* the (sheet name, status) pairs of a list of records
Statuses(recs) == [k \in DOMAIN recs |-> <<recs[k].sheet_name, recs[k].status>>]

\* C29: on an output root that holds none of the workbook's destinations,
\* process_uploaded_files and process_excel_file give the same (sheet name,
\* status) records in the same order and leave the same files.
C29_UploadSameAsFolderRun ==
    (/\ outcome # Unset
     /\ \A k \in DOMAIN call.sheets :
           OutputPath(call.sheets[k].name, call.date, call.posix) \notin DOMAIN call.files) =>
        /\ Statuses(outcome.uploaded.recs) = Statuses(outcome.excel.recs)
        /\ outcome.uploaded.files = outcome.excel.files

====
